---- MODULE Spec2Model ----
(***************************************************************************)
(* Parallel deployment orchestrator of deploy.py: pre-flight check of the  *)
(* inventory, dispatch of one ansible-playbook process per cluster, the    *)
(* polling status monitor with optional fail-fast, the SIGINT/SIGTERM      *)
(* handler exit_gracefully, the recap and the process exit code.           *)
(*                                                                         *)
(* Granularity: one action per dispatched target, per record visited by    *)
(* the poll loop, per record visited by kill_deployments, per recap, per   *)
(* pull_logs call.  The deployment processes are the environment: each     *)
(* may exit on its own between any two actions.                            *)
(*                                                                         *)
(* Spec         the orchestrator at that granularity                       *)
(* SpecStmt     the same with main advancing one statement at a time       *)
(* SpecLookup   Spec where os.kill may raise ProcessLookupError            *)
(* SpecPlaybook the playbook choice and command of one run_deployment call *)
(* SpecQuiet    Spec without signals, main and the processes being fair    *)
(* SpecStages   deploy_esp.py: check_stages and the stage decorator        *)
(***************************************************************************)
EXTENDS Integers, Sequences, FiniteSets, TLC

\* ---------------------------------------------------------------- bounds
MaxTargets == 3

\* ------------------------------------------------------------- constants
ERROR_EXIT_CODE == 1
\* Popen.poll() of a process that has not exited (Python None)
None == 256
\* Popen.returncode of a child ended by SIGTERM (-signal.SIGTERM)
TermStatus == -15
\* a child that no longer exists although Popen holds no returncode for it
\* (os.kill raises ProcessLookupError)
Lost == 257
\* exit code of the orchestrator while it is still running
NoExit == -1

\* deployment types an inventory may name, and those present under DEPLOYMENTS_PATH
DeploymentTypes == {"pwek-all-in-one", "no-such-deployment"}
DEPLOYMENTS_PATH == {"pwek-all-in-one"}

\* exit statuses ansible-playbook ends with on its own
ExitStatuses == {0, 1}
\* returncode left by Popen.wait() after os.kill/terminate: killed by the
\* signal, or the child ended on its own in the window after poll()
KillStatuses == {TermStatus, 0, 1}

VARIABLES
    targets,              \* inventory_handler.get_inventories, in file order
    exit_on_error,        \* args.any_errors_fatal
    deployment_wrappers,  \* the global list shared by main and the handler
    pc,                   \* position of main
    idx,                  \* position of the for loop of check_deployments_status
    kidx,                 \* position of the for loop of the monitor's kill_deployments
    sig,                  \* position of exit_gracefully ("none": no signal delivered)
    hidx,                 \* position of the for loop of the handler's kill_deployments
    exit_code,            \* process exit status, NoExit while running
    exit_path,            \* which sys.exit ended the run
    recap,                \* what print_deployment_recap logged last
    recaps,               \* number of recaps printed
    premature_read,       \* some ended_successfully was read while has_ended was False
    pulled,               \* clusters pull_logs was called for, in call order
    kill_callers,         \* who invoked kill_deployments so far
    unended_at_signal,    \* indices of the records with has_ended False at signal time
    pending,              \* processes run_deployment has spawned and main not yet appended
    stmt,                 \* line main is about to execute inside a record's transition
    rd,                   \* locals of one run_deployment call (playbook selection)
    stages,               \* deploy_esp: the stage table handed to stage/check_stages
    status_files,         \* deploy_esp: the status files that exist on disk
    start_from,           \* deploy_esp: args.start_from ("None": not given)
    force,                \* deploy_esp: args.force (--cleanup)
    stage_pc,             \* deploy_esp: position of main
    files_before,         \* status files that existed when check_stages was called ({} elsewhere)
    last_call             \* the last call of a function wrapped by the stage decorator

\* the state of deploy_esp.py
stage_vars == <<stages, status_files, start_from, force, stage_pc, files_before, last_call>>

vars == <<targets, exit_on_error, deployment_wrappers, pc, idx, kidx, sig, hidx,
          exit_code, exit_path, recap, recaps, premature_read, pulled,
          kill_callers, unended_at_signal, pending, stmt, rd, stage_vars>>

\* the part of the state the record-level actions leave alone
aux == <<pending, stmt, rd, stage_vars>>

\* ------------------------------------------------------------ inventory
\* an inventory entry: cluster i of the file is named i
Inventory(i, d) == [cluster_name |-> i, deployment |-> d]

InventoryLists ==
    UNION { { [i \in 1..n |-> Inventory(i, f[i])] : f \in [1..n -> DeploymentTypes] }
            : n \in 0..MaxTargets }

\* ------------------------------------------------------ pure functions
verify_deployment(deployment, deployment_path) == deployment \in deployment_path

DeploymentWrapper(process, inventory) ==
    [ process            |-> process,
      cluster_name       |-> inventory.cluster_name,
      log_file           |-> "open",
      closes             |-> 0,
      late_write         |-> FALSE,
      has_ended          |-> FALSE,
      ended_successfully |-> FALSE,
      ended_by           |-> "nobody" ]

\* variant: the result is that of the last record alone
has_deployments_successful_last(deployments) ==
    \A i \in {Len(deployments)} \cap (1..Len(deployments)) :
        deployments[i].ended_successfully

\* variant: an empty list is not successful
has_deployments_successful_nonempty(deployments) ==
    /\ deployments # <<>>
    /\ \A i \in 1..Len(deployments) : deployments[i].ended_successfully

has_deployments_successful(deployments) ==
    \A i \in 1..Len(deployments) : deployments[i].ended_successfully

has_deployments_ended(deployments) ==
    \A i \in 1..Len(deployments) : deployments[i].has_ended

\* file.close(): closing a closed file is accepted; closes counts the calls
CloseLog(d) == [d EXCEPT !.log_file = "closed", !.closes = @ + 1]

\* the child writes a line to its stdout/stderr, which Popen redirected into
\* the log file (line 238); late_write records a write after log_file.close()
WriteLog(d) == [d EXCEPT !.late_write = (@ \/ d.log_file = "closed")]

\* ------------------------------------------------- kill_deployments body
\* variant: nothing is done, as in DeploymentWrapper.kill_deployment
KillOneStub(d, rc) == d

\* variant: the log file is not closed
KillOneNoClose(d, rc) ==
    IF d.process = None
    THEN [d EXCEPT !.process = rc,
                   !.has_ended = TRUE,
                   !.ended_successfully = FALSE,
                   !.ended_by = "kill"]
    ELSE d

\* one iteration of the for loop of kill_deployments; rc is the returncode
\* Popen.wait() collects after os.kill and terminate
\* variant: the poll() test is left out
KillOneNoPollTest(d, rc) ==
    CloseLog([d EXCEPT !.process = (IF d.process = None THEN rc ELSE d.process),
                       !.has_ended = TRUE,
                       !.ended_successfully = FALSE,
                       !.ended_by = "kill"])

\* variant: a process that wait() reports ended with status 0 is marked successful
KillOneByStatus(d, rc) ==
    IF d.process = None
    THEN CloseLog([d EXCEPT !.process = rc,
                            !.has_ended = TRUE,
                            !.ended_successfully = (rc = 0),
                            !.ended_by = "kill"])
    ELSE d

\* variant: the test is "not deployment.has_ended" instead of poll() is None
KillOneUnended(d, rc) ==
    IF ~d.has_ended
    THEN CloseLog([d EXCEPT !.process = (IF d.process = None THEN rc ELSE d.process),
                            !.has_ended = TRUE,
                            !.ended_successfully = FALSE,
                            !.ended_by = "kill"])
    ELSE d

KillOne(d, rc) ==
    IF d.process = None
    THEN CloseLog([d EXCEPT !.process = rc,
                            !.has_ended = TRUE,
                            !.ended_successfully = FALSE,
                            !.ended_by = "kill"])
    ELSE d

\* kill_deployments over the whole list, every killed process leaving rc
KillAll(deployments, rc) ==
    [i \in 1..Len(deployments) |-> KillOne(deployments[i], rc)]

\* ----------------------------------------- check_deployments_status body
\* variant: the "or deployment.has_ended" test is left out
PollOneNoEndedTest(d) ==
    IF d.process = None
    THEN d
    ELSE IF d.process = 0
    THEN [CloseLog(d) EXCEPT !.has_ended = TRUE,
                             !.ended_successfully = TRUE,
                             !.ended_by = "monitor"]
    ELSE [CloseLog(d) EXCEPT !.has_ended = TRUE,
                             !.ended_successfully = FALSE,
                             !.ended_by = "monitor"]

\* variant: any exit of the process counts as success
PollOneExitedIsSuccess(d) ==
    IF d.process = None \/ d.has_ended
    THEN d
    ELSE [CloseLog(d) EXCEPT !.has_ended = TRUE,
                             !.ended_successfully = TRUE,
                             !.ended_by = "monitor"]

\* variant: only the branch "succeed" of the iteration is kept
PollOneSuccessOnly(d) ==
    IF d.process = 0 /\ ~d.has_ended
    THEN [CloseLog(d) EXCEPT !.has_ended = TRUE,
                             !.ended_successfully = TRUE,
                             !.ended_by = "monitor"]
    ELSE d

\* one iteration of the for loop inside the while loop
PollOne(d) ==
    IF d.process = None \/ d.has_ended
    THEN d
    ELSE IF d.process = 0
    THEN [CloseLog(d) EXCEPT !.has_ended = TRUE,
                             !.ended_successfully = TRUE,
                             !.ended_by = "monitor"]
    ELSE [CloseLog(d) EXCEPT !.has_ended = TRUE,
                             !.ended_successfully = FALSE,
                             !.ended_by = "monitor"]

\* the iteration took the "failed" branch
PollFailed(d) == ~(d.process = None \/ d.has_ended) /\ d.process # 0

\* variant: the exit_on_error test is left out
FailFastAlways(d, any_errors_fatal) == PollFailed(d)

\* the "failed" branch goes on to kill_deployments(deployments)
FailFast(d, any_errors_fatal) == PollFailed(d) /\ any_errors_fatal = TRUE

\* ------------------------------------------------ print_deployment_recap
RECURSIVE CountSuccessful(_)
CountSuccessful(deployments) ==
    IF deployments = <<>> THEN 0
    ELSE (IF Head(deployments).ended_successfully THEN 1 ELSE 0)
         + CountSuccessful(Tail(deployments))

RECURSIVE CountFailure(_)
CountFailure(deployments) ==
    IF deployments = <<>> THEN 0
    ELSE (IF Head(deployments).ended_successfully THEN 0 ELSE 1)
         + CountFailure(Tail(deployments))

RecapLine(d) ==
    [ cluster_name |-> d.cluster_name,
      status       |-> IF d.ended_successfully THEN "SUCCESSFUL" ELSE "FAILED" ]

print_deployment_recap(deployments) ==
    [ deployment_count |-> Len(deployments),
      successful_count |-> CountSuccessful(deployments),
      failure_count    |-> CountFailure(deployments),
      lines            |-> [i \in 1..Len(deployments) |-> RecapLine(deployments[i])] ]

NoRecap == [deployment_count |-> 0, successful_count |-> 0, failure_count |-> 0,
            lines |-> <<>>]

\* records whose ended_successfully print_deployment_recap reads: all of them
RecapReads(deployments) == 1..Len(deployments)

\* records whose ended_successfully has_deployments_successful reads: up to
\* and including the first unsuccessful one
SuccessfulReads(deployments) ==
    { i \in 1..Len(deployments) :
        \A j \in 1..(i-1) : deployments[j].ended_successfully }

ReadsUnended(deployments, reads) == \E i \in reads : ~deployments[i].has_ended

\* -------------------------------------------------------- run_deployment
\* line 201: deployment types that accept the clean/redeploy options
EXTRA_OPTIONS == {"pwek-all-in-one"}

\* variant: the redeploy flag is looked at before the cleanup flag
select_playbook_redeploy_first(deployment, cleanup, redeploy, is_single_node) ==
    LET extra_options_supported == deployment \in EXTRA_OPTIONS
    IN IF extra_options_supported /\ redeploy THEN "network_edge_5g_redeploy.yml"
       ELSE IF extra_options_supported /\ cleanup THEN "network_edge_5g_cleanup.yml"
       ELSE IF is_single_node THEN "single_node_network_edge.yml"
       ELSE "network_edge.yml"

\* lines 201-211
select_playbook(deployment, cleanup, redeploy, is_single_node) ==
    LET extra_options_supported == deployment \in EXTRA_OPTIONS
    IN IF extra_options_supported /\ cleanup THEN "network_edge_5g_cleanup.yml"
       ELSE IF extra_options_supported /\ redeploy THEN "network_edge_5g_redeploy.yml"
       ELSE IF is_single_node THEN "single_node_network_edge.yml"
       ELSE "network_edge.yml"

\* lines 215-221: the command as the list Popen receives (command.split())
ansible_playbook_command(playbook, inventory_location, limit) ==
    <<"ansible-playbook", "-vv", playbook, "--inventory", inventory_location>>
    \o (IF limit # "None" THEN <<"--limit", limit>> ELSE <<>>)

\* no run_deployment call under study
NoCall == [phase |-> "none"]

\* deployment types, host limits and flags a call may be made with
PlaybookDeployments == {"pwek-all-in-one", "pwek", "sdewan-edge"}
Limits == {"None", "controller"}

RunDeploymentCalls ==
    [ phase          : {"start"},
      deployment     : PlaybookDeployments,
      is_single_node : BOOLEAN,
      limit          : Limits,
      cleanup        : BOOLEAN,
      redeploy       : BOOLEAN,
      playbook       : {"unset"},
      command        : {<<>>} ]

\* ------------------------------------------- deploy_esp: stages (stage.py)
\* deploy_esp.py lines 120-146: STAGES, each stage with its status file and its
\* order; an order is the string of its characters ('4.a' is "4", ".", "a")
STAGES ==
    "clone-esp"          :> [status_file |-> ".cloned_esp",          order |-> <<"1">>] @@
    "configure-esp"      :> [status_file |-> ".configured_esp",      order |-> <<"2">>] @@
    "build-esp"          :> [status_file |-> ".built_esp",           order |-> <<"3">>] @@
    "build-usb-images"   :> [status_file |-> ".built_esp_images",    order |-> <<"4", ".", "a">>] @@
    "configure-profiles" :> [status_file |-> ".configured_profiles", order |-> <<"4", ".", "b">>]

\* a table in which the two branches join again (the case lines 58-59 of
\* stage.py provide for): STAGES followed by one stage of order '5'
STAGES_JOINED ==
    STAGES @@ ("after-branches" :> [status_file |-> ".after_branches", order |-> <<"5">>])

StageTables == {STAGES, STAGES_JOINED}

\* the status files of a table
StatusFilesOf(table) == { table[s].status_file : s \in DOMAIN table }

Digits == "0" :> 0 @@ "1" :> 1 @@ "2" :> 2 @@ "3" :> 3 @@ "4" :> 4 @@
          "5" :> 5 @@ "6" :> 6 @@ "7" :> 7 @@ "8" :> 8 @@ "9" :> 9

\* str.split(sep) of a string without white space
RECURSIVE split(_, _)
split(str, sep) ==
    IF \A i \in 1..Len(str) : str[i] # sep
    THEN <<str>>
    ELSE LET k == CHOOSE i \in 1..Len(str) :
                      str[i] = sep /\ \A j \in 1..(i-1) : str[j] # sep
         IN <<SubSeq(str, 1, k - 1)>> \o split(SubSeq(str, k + 1, Len(str)), sep)

\* int(i) of a string of decimal digits
RECURSIVE int(_)
int(i) ==
    IF i = <<>> THEN 0
    ELSE 10 * int(SubSeq(i, 1, Len(i) - 1)) + Digits[i[Len(i)]]

\* stage.py lines 36-41: int(i), and i itself when int raises ValueError
tryint(i) ==
    IF i # <<>> /\ \A k \in 1..Len(i) : i[k] \in DOMAIN Digits
    THEN int(i)
    ELSE i

\* stage.py lines 43-44
to_indices(order) ==
    LET parts == split(order, ".")
    IN [k \in 1..Len(parts) |-> tryint(parts[k])]

\* variant: the start stage itself is kept
unlinks_beyond_only(start_order, other_order) ==
    IF Len(start_order) = 1 /\ start_order[1] < other_order[1]
    THEN TRUE
    ELSE IF Len(start_order) = 2
    THEN \/ Len(other_order) = 1 /\ start_order[1] < other_order[1]
         \/ Len(other_order) = 2 /\ start_order = other_order
    ELSE FALSE

\* variant: a start stage on a branch takes every stage of its level with it
unlinks_whole_level(start_order, other_order) ==
    IF Len(start_order) = 1 /\ start_order[1] <= other_order[1]
    THEN TRUE
    ELSE IF Len(start_order) = 2
    THEN \/ Len(other_order) = 1 /\ start_order[1] < other_order[1]
         \/ Len(other_order) = 2 /\ start_order[1] = other_order[1]
    ELSE FALSE

\* stage.py lines 54-63: the tests under which the status file of the other
\* stage is unlinked
unlinks(start_order, other_order) ==
    IF Len(start_order) = 1 /\ start_order[1] <= other_order[1]
    THEN TRUE
    ELSE IF Len(start_order) = 2
    THEN \/ Len(other_order) = 1 /\ start_order[1] < other_order[1]
         \/ Len(other_order) = 2 /\ start_order = other_order
    ELSE FALSE

\* stage.py lines 30-63: the status files left on disk by check_stages
check_stages(start, table, files) ==
    IF start = "None"
    THEN files
    ELSE LET start_order == to_indices(table[start].order)
         IN files \ { table[other].status_file :
                        other \in { o \in DOMAIN table :
                                      unlinks(start_order, to_indices(table[o].order)) } }

\* no wrapped function has been called
NoStageCall == [stage |-> "none", ran |-> FALSE, result |-> "none"]

\* what a body does when it runs
BodyOutcomes == {"returned", "raised"}

\* variant: the status file is created before the body runs
wrapper_touch_first(stage_name, table, files, outcome) ==
    LET status_file == table[stage_name].status_file
    IN IF status_file \in files
       THEN [files |-> files,
             call  |-> [stage |-> stage_name, ran |-> FALSE, result |-> "None"]]
       ELSE [files |-> files \cup {status_file},
             call  |-> [stage |-> stage_name, ran |-> TRUE, result |-> outcome]]

\* stage.py lines 16-25: a call of the function wrapped for stage_name, whose
\* body, when run, ends with outcome; gives the status files left on disk and
\* what the call did
wrapper(stage_name, table, files, outcome) ==
    LET status_file == table[stage_name].status_file
    IN IF status_file \in files
       THEN [files |-> files,
             call  |-> [stage |-> stage_name, ran |-> FALSE, result |-> "None"]]
       ELSE IF outcome = "returned"
       THEN [files |-> files \cup {status_file},
             call  |-> [stage |-> stage_name, ran |-> TRUE, result |-> "returned"]]
       ELSE [files |-> files,
             call  |-> [stage |-> stage_name, ran |-> TRUE, result |-> "raised"]]

\* deploy_esp.py lines 1215 and 1221: the wrapped functions main calls
main_calls(stage_name, start) ==
    CASE stage_name = "build-usb-images"   -> start # "configure-profiles"
      [] stage_name = "configure-profiles" -> start # "build-usb-images"
      [] OTHER                             -> TRUE

\* deploy_esp.py is not running
StagesIdle ==
    /\ stages = STAGES
    /\ status_files = {}
    /\ start_from = "None"
    /\ force = FALSE
    /\ stage_pc = "idle"
    /\ files_before = {}
    /\ last_call = NoStageCall

\* ----------------------------------------------------------------- Init
Init ==
    /\ targets \in InventoryLists
    /\ exit_on_error \in BOOLEAN
    /\ deployment_wrappers = <<>>
    /\ pc = "preflight"
    /\ idx = 0
    /\ kidx = 0
    /\ sig = "none"
    /\ hidx = 0
    /\ exit_code = NoExit
    /\ exit_path = "running"
    /\ recap = NoRecap
    /\ recaps = 0
    /\ premature_read = FALSE
    /\ pulled = <<>>
    /\ kill_callers = {}
    /\ unended_at_signal = {}
    /\ pending = <<>>
    /\ stmt = "next"
    /\ rd = NoCall
    /\ StagesIdle

Running == exit_code = NoExit
MainRuns == Running /\ sig = "none"

\* sys.exit(code)
SysExit(code, path) ==
    /\ exit_code' = code
    /\ exit_path' = path

\* --------------------------------------------------------------- main
\* variant: only the first inventory is verified
PreflightFailsFirstOnly ==
    \E i \in {1} \cap (1..Len(targets)) :
        ~verify_deployment(targets[i].deployment, DEPLOYMENTS_PATH)

\* lines 402-407: every inventory is verified before anything is launched
PreflightFails ==
    \E i \in 1..Len(targets) : ~verify_deployment(targets[i].deployment, DEPLOYMENTS_PATH)

Preflight ==
    /\ MainRuns
    /\ pc = "preflight"
    /\ IF PreflightFails
       THEN /\ pc' = "exited"
            /\ SysExit(ERROR_EXIT_CODE, "preflight")
       ELSE /\ pc' = "dispatch"
            /\ UNCHANGED <<exit_code, exit_path>>
    /\ UNCHANGED aux
    /\ UNCHANGED <<targets, exit_on_error, deployment_wrappers, idx, kidx, sig, hidx,
                   recap, recaps, premature_read, pulled, kill_callers,
                   unended_at_signal>>

\* lines 410-413: run_deployment spawns the process, main appends the record
\* variant: the new record is put in front
PrependWrapper(wrappers, w) == <<w>> \o wrappers

AppendWrapper(wrappers, w) == Append(wrappers, w)

Dispatch ==
    /\ MainRuns
    /\ pc = "dispatch"
    /\ Len(deployment_wrappers) < Len(targets)
    /\ deployment_wrappers' =
          AppendWrapper(deployment_wrappers,
                        DeploymentWrapper(None, targets[Len(deployment_wrappers) + 1]))
    /\ UNCHANGED aux
    /\ UNCHANGED <<targets, exit_on_error, pc, idx, kidx, sig, hidx, exit_code, exit_path,
                   recap, recaps, premature_read, pulled, kill_callers,
                   unended_at_signal>>

\* lines 124, 174, 182: sys.exit(ERROR_EXIT_CODE) while run_deployment prepares
\* the variable layout of the next target, before its process is spawned
DispatchAbort ==
    /\ MainRuns
    /\ pc = "dispatch"
    /\ Len(deployment_wrappers) < Len(targets)
    /\ pending = <<>>
    /\ pc' = "exited"
    /\ SysExit(ERROR_EXIT_CODE, "dispatch_abort")
    /\ UNCHANGED aux
    /\ UNCHANGED <<targets, exit_on_error, deployment_wrappers, idx, kidx, sig, hidx,
                   recap, recaps, premature_read, pulled, kill_callers,
                   unended_at_signal>>

\* line 304: the while test; entered from main (line 415) and after each sleep
WhileTest ==
    IF has_deployments_ended(deployment_wrappers)
    THEN pc' = "recap" /\ idx' = 0
    ELSE pc' = "poll" /\ idx' = 1

\* variant: the monitor is entered as soon as one record exists
StartMonitorEarly ==
    /\ MainRuns
    /\ pc = "dispatch"
    /\ pending = <<>>
    /\ Len(deployment_wrappers) >= 1
    /\ WhileTest
    /\ UNCHANGED aux
    /\ UNCHANGED <<targets, exit_on_error, deployment_wrappers, kidx, sig, hidx,
                   exit_code, exit_path, recap, recaps, premature_read, pulled,
                   kill_callers, unended_at_signal>>

StartMonitor ==
    /\ MainRuns
    /\ pc = "dispatch"
    /\ Len(deployment_wrappers) = Len(targets)
    /\ WhileTest
    /\ UNCHANGED aux
    /\ UNCHANGED <<targets, exit_on_error, deployment_wrappers, kidx, sig, hidx,
                   exit_code, exit_path, recap, recaps, premature_read, pulled,
                   kill_callers, unended_at_signal>>

\* lines 305-325: one record of the for loop
PollRecord ==
    /\ MainRuns
    /\ pc = "poll"
    /\ idx \in 1..Len(deployment_wrappers)
    /\ deployment_wrappers' =
          [deployment_wrappers EXCEPT ![idx] = PollOne(deployment_wrappers[idx])]
    /\ IF FailFast(deployment_wrappers[idx], exit_on_error)
       THEN /\ pc' = "kill"
            /\ kidx' = 1
            /\ kill_callers' = kill_callers \cup {"monitor"}
            /\ idx' = idx
       ELSE /\ idx' = idx + 1
            /\ UNCHANGED <<pc, kidx, kill_callers>>
    /\ UNCHANGED aux
    /\ UNCHANGED <<targets, exit_on_error, sig, hidx, exit_code, exit_path, recap, recaps,
                   premature_read, pulled, unended_at_signal>>

\* lines 249-264 called from line 325: one record of kill_deployments; after
\* the last one the monitor goes on with its next record
MonitorKill ==
    /\ MainRuns
    /\ pc = "kill"
    /\ kidx \in 1..Len(deployment_wrappers)
    /\ \E rc \in KillStatuses :
          deployment_wrappers' =
             [deployment_wrappers EXCEPT ![kidx] = KillOne(deployment_wrappers[kidx], rc)]
    /\ IF kidx = Len(deployment_wrappers)
       THEN pc' = "poll" /\ idx' = idx + 1 /\ kidx' = 0
       ELSE kidx' = kidx + 1 /\ UNCHANGED <<pc, idx>>
    /\ UNCHANGED aux
    /\ UNCHANGED <<targets, exit_on_error, sig, hidx, exit_code, exit_path, recap, recaps,
                   premature_read, pulled, kill_callers, unended_at_signal>>

\* line 326 then line 304
Sleep ==
    /\ MainRuns
    /\ pc = "poll"
    /\ idx > Len(deployment_wrappers)
    /\ WhileTest
    /\ UNCHANGED aux
    /\ UNCHANGED <<targets, exit_on_error, deployment_wrappers, kidx, sig, hidx,
                   exit_code, exit_path, recap, recaps, premature_read, pulled,
                   kill_callers, unended_at_signal>>

\* line 417
PrintRecap ==
    /\ MainRuns
    /\ pc = "recap"
    /\ recap' = print_deployment_recap(deployment_wrappers)
    /\ recaps' = recaps + 1
    /\ premature_read' = (premature_read
                          \/ ReadsUnended(deployment_wrappers, RecapReads(deployment_wrappers)))
    /\ pc' = "decide"
    /\ UNCHANGED aux
    /\ UNCHANGED <<targets, exit_on_error, deployment_wrappers, idx, kidx, sig, hidx,
                   exit_code, exit_path, pulled, kill_callers, unended_at_signal>>

\* lines 418-421
Decide ==
    /\ MainRuns
    /\ pc = "decide"
    /\ premature_read' = (premature_read
                          \/ ReadsUnended(deployment_wrappers,
                                          SuccessfulReads(deployment_wrappers)))
    /\ IF has_deployments_successful(deployment_wrappers)
       THEN /\ pc' = "exited"
            /\ SysExit(0, "main")
       ELSE /\ pc' = "pull_logs"
            /\ UNCHANGED <<exit_code, exit_path>>
    /\ UNCHANGED aux
    /\ UNCHANGED <<targets, exit_on_error, deployment_wrappers, idx, kidx, sig, hidx,
                   recap, recaps, pulled, kill_callers, unended_at_signal>>

\* lines 422-423: one pull_logs call
PullLogs ==
    /\ MainRuns
    /\ pc = "pull_logs"
    /\ Len(pulled) < Len(deployment_wrappers)
    /\ pulled' = Append(pulled, deployment_wrappers[Len(pulled) + 1].cluster_name)
    /\ UNCHANGED aux
    /\ UNCHANGED <<targets, exit_on_error, deployment_wrappers, pc, idx, kidx, sig, hidx,
                   exit_code, exit_path, recap, recaps, premature_read, kill_callers,
                   unended_at_signal>>

\* variant: sys.exit does not wait for the pull_logs loop to finish
ExitFailureEarly ==
    /\ MainRuns
    /\ pc = "pull_logs"
    /\ pc' = "exited"
    /\ SysExit(ERROR_EXIT_CODE, "main")
    /\ UNCHANGED aux
    /\ UNCHANGED <<targets, exit_on_error, deployment_wrappers, idx, kidx, sig, hidx,
                   recap, recaps, premature_read, pulled, kill_callers,
                   unended_at_signal>>

\* line 424
ExitFailure ==
    /\ MainRuns
    /\ pc = "pull_logs"
    /\ Len(pulled) = Len(deployment_wrappers)
    /\ pc' = "exited"
    /\ SysExit(ERROR_EXIT_CODE, "main")
    /\ UNCHANGED aux
    /\ UNCHANGED <<targets, exit_on_error, deployment_wrappers, idx, kidx, sig, hidx,
                   recap, recaps, premature_read, pulled, kill_callers,
                   unended_at_signal>>

\* ------------------------------------------------------ exit_gracefully
\* SIGINT or SIGTERM is delivered while main runs; main stays where it is
Signal ==
    /\ MainRuns
    /\ sig' = "kill"
    /\ hidx' = 1
    /\ kill_callers' = kill_callers \cup {"handler"}
    /\ unended_at_signal' = { i \in 1..Len(deployment_wrappers) :
                                ~deployment_wrappers[i].has_ended }
    /\ UNCHANGED aux
    /\ UNCHANGED <<targets, exit_on_error, deployment_wrappers, pc, idx, kidx,
                   exit_code, exit_path, recap, recaps, premature_read, pulled>>

\* line 333: one record of kill_deployments(deployment_wrappers)
HandlerKill ==
    /\ Running
    /\ sig = "kill"
    /\ hidx \in 1..Len(deployment_wrappers)
    /\ \E rc \in KillStatuses :
          deployment_wrappers' =
             [deployment_wrappers EXCEPT ![hidx] = KillOne(deployment_wrappers[hidx], rc)]
    /\ hidx' = hidx + 1
    /\ UNCHANGED aux
    /\ UNCHANGED <<targets, exit_on_error, pc, idx, kidx, sig, exit_code, exit_path,
                   recap, recaps, premature_read, pulled, kill_callers,
                   unended_at_signal>>

\* line 335
HandlerRecap ==
    /\ Running
    /\ sig = "kill"
    /\ hidx > Len(deployment_wrappers)
    /\ recap' = print_deployment_recap(deployment_wrappers)
    /\ recaps' = recaps + 1
    /\ premature_read' = (premature_read
                          \/ ReadsUnended(deployment_wrappers, RecapReads(deployment_wrappers)))
    /\ sig' = "recap"
    /\ UNCHANGED aux
    /\ UNCHANGED <<targets, exit_on_error, deployment_wrappers, pc, idx, kidx, hidx,
                   exit_code, exit_path, pulled, kill_callers, unended_at_signal>>

\* line 336
HandlerExit ==
    /\ Running
    /\ sig = "recap"
    /\ sig' = "exited"
    /\ SysExit(ERROR_EXIT_CODE, "signal")
    /\ UNCHANGED aux
    /\ UNCHANGED <<targets, exit_on_error, deployment_wrappers, pc, idx, kidx, hidx,
                   recap, recaps, premature_read, pulled, kill_callers,
                   unended_at_signal>>

\* ----------------------------------------------------------- environment
\* an ansible-playbook process ends on its own
ProcessExits ==
    /\ Running
    /\ \E i \in 1..Len(deployment_wrappers) :
          /\ deployment_wrappers[i].process = None
          /\ \E rc \in ExitStatuses :
                deployment_wrappers' = [deployment_wrappers EXCEPT ![i].process = rc]
    /\ UNCHANGED aux
    /\ UNCHANGED <<targets, exit_on_error, pc, idx, kidx, sig, hidx, exit_code, exit_path,
                   recap, recaps, premature_read, pulled, kill_callers,
                   unended_at_signal>>

\* a running ansible-playbook process writes to its log
ProcessWrites ==
    /\ Running
    /\ \E i \in 1..Len(deployment_wrappers) :
          /\ deployment_wrappers[i].process = None
          /\ deployment_wrappers' =
                [deployment_wrappers EXCEPT ![i] = WriteLog(deployment_wrappers[i])]
    /\ UNCHANGED aux
    /\ UNCHANGED <<targets, exit_on_error, pc, idx, kidx, sig, hidx, exit_code, exit_path,
                   recap, recaps, premature_read, pulled, kill_callers,
                   unended_at_signal>>

Next ==
    \/ Preflight
    \/ Dispatch
    \/ DispatchAbort
    \/ StartMonitor
    \/ PollRecord
    \/ MonitorKill
    \/ Sleep
    \/ PrintRecap
    \/ Decide
    \/ PullLogs
    \/ ExitFailure
    \/ Signal
    \/ HandlerKill
    \/ HandlerRecap
    \/ HandlerExit
    \/ ProcessExits
    \/ ProcessWrites

Spec == Init /\ [][Next]_vars

TypeOK ==
    /\ pc \in {"preflight", "dispatch", "poll", "kill", "recap", "decide", "pull_logs", "exited"}
    /\ sig \in {"none", "kill", "recap", "exited"}
    /\ exit_code \in {NoExit, 0, ERROR_EXIT_CODE}
    /\ Len(deployment_wrappers) <= Len(targets)

\* ------------------------------------- ProcessLookupError in kill_deployments
\* lines 252-256: os.kill raises ProcessLookupError; the except branch builds
\* its log call from deployment.name, an attribute DeploymentWrapper (lines
\* 52-59) does not have, so AttributeError leaves kill_deployments.  Called
\* from line 325 it leaves check_deployments_status and main uncaught (line 430
\* catches ArgumentTypeError only): the interpreter exits with status 1.
MonitorKillLookupError ==
    /\ MainRuns
    /\ pc = "kill"
    /\ kidx \in 1..Len(deployment_wrappers)
    /\ deployment_wrappers[kidx].process = None
    /\ deployment_wrappers' = [deployment_wrappers EXCEPT ![kidx].process = Lost]
    /\ pc' = "exited"
    /\ SysExit(ERROR_EXIT_CODE, "exception")
    /\ UNCHANGED aux
    /\ UNCHANGED <<targets, exit_on_error, idx, kidx, sig, hidx, recap, recaps,
                   premature_read, pulled, kill_callers, unended_at_signal>>

\* the same called from line 333: AttributeError leaves exit_gracefully before
\* lines 335-336 and is raised in main, uncaught
HandlerKillLookupError ==
    /\ Running
    /\ sig = "kill"
    /\ hidx \in 1..Len(deployment_wrappers)
    /\ deployment_wrappers[hidx].process = None
    /\ deployment_wrappers' = [deployment_wrappers EXCEPT ![hidx].process = Lost]
    /\ sig' = "exited"
    /\ SysExit(ERROR_EXIT_CODE, "exception")
    /\ UNCHANGED aux
    /\ UNCHANGED <<targets, exit_on_error, pc, idx, kidx, hidx, recap, recaps,
                   premature_read, pulled, kill_callers, unended_at_signal>>

\* the orchestrator in an environment where a child may vanish unreaped
NextLookup ==
    \/ Next
    \/ MonitorKillLookupError
    \/ HandlerKillLookupError

SpecLookup == Init /\ [][NextLookup]_vars

\* ------------------------------------------------ statement granularity
\* The same program with main advancing one statement at a time inside
\* run_deployment/append, inside a record's transition of the monitor and
\* inside an iteration of the monitor's kill_deployments, so that the signal
\* handler can run between any two of them.  stmt names the line main executes
\* next ("next": the test that opens the iteration at idx or kidx).

\* lines 229-238: the log file is opened and the process spawned
StmtSpawn ==
    /\ MainRuns
    /\ pc = "dispatch"
    /\ pending = <<>>
    /\ Len(deployment_wrappers) < Len(targets)
    /\ pending' = <<None>>
    /\ UNCHANGED <<targets, exit_on_error, deployment_wrappers, pc, idx, kidx, sig, hidx,
                   exit_code, exit_path, recap, recaps, premature_read, pulled,
                   kill_callers, unended_at_signal, stmt, rd, stage_vars>>

\* lines 240-244 and 412: the record is built, returned and appended
StmtAppend ==
    /\ MainRuns
    /\ pc = "dispatch"
    /\ pending # <<>>
    /\ deployment_wrappers' =
          AppendWrapper(deployment_wrappers,
                        DeploymentWrapper(pending[1], targets[Len(deployment_wrappers) + 1]))
    /\ pending' = <<>>
    /\ UNCHANGED <<targets, exit_on_error, pc, idx, kidx, sig, hidx,
                   exit_code, exit_path, recap, recaps, premature_read, pulled,
                   kill_callers, unended_at_signal, stmt, rd, stage_vars>>

\* the spawned process ends on its own before its record is appended
PendingExits ==
    /\ Running
    /\ pending = <<None>>
    /\ \E rc \in ExitStatuses : pending' = <<rc>>
    /\ UNCHANGED <<targets, exit_on_error, deployment_wrappers, pc, idx, kidx, sig, hidx,
                   exit_code, exit_path, recap, recaps, premature_read, pulled,
                   kill_callers, unended_at_signal, stmt, rd, stage_vars>>

\* lines 306-312 and 315-320: the tests of the iteration and, in the branches
\* "succeed" and "failed", deployment.log_file.close()
StmtPollTest ==
    /\ MainRuns
    /\ pc = "poll"
    /\ stmt = "next"
    /\ idx \in 1..Len(deployment_wrappers)
    /\ LET d == deployment_wrappers[idx]
       IN IF d.process = None \/ d.has_ended
          THEN /\ idx' = idx + 1
               /\ UNCHANGED <<deployment_wrappers, stmt>>
          ELSE /\ deployment_wrappers' = [deployment_wrappers EXCEPT ![idx] = CloseLog(d)]
               /\ stmt' = (IF d.process = 0 THEN "313" ELSE "321")
               /\ idx' = idx
    /\ UNCHANGED <<targets, exit_on_error, pc, kidx, sig, hidx,
                   exit_code, exit_path, recap, recaps, premature_read, pulled,
                   kill_callers, unended_at_signal, pending, rd, stage_vars>>

\* line 313 or 321: deployment.has_ended = True
StmtPollEnded ==
    /\ MainRuns
    /\ pc = "poll"
    /\ stmt \in {"313", "321"}
    /\ deployment_wrappers' = [deployment_wrappers EXCEPT ![idx].has_ended = TRUE,
                                                          ![idx].ended_by = "monitor"]
    /\ stmt' = (IF stmt = "313" THEN "314" ELSE "322")
    /\ UNCHANGED <<targets, exit_on_error, pc, idx, kidx, sig, hidx,
                   exit_code, exit_path, recap, recaps, premature_read, pulled,
                   kill_callers, unended_at_signal, pending, rd, stage_vars>>

\* line 314, or lines 322-325: deployment.ended_successfully is assigned and,
\* in the branch "failed", fail-fast enters kill_deployments
StmtPollResult ==
    /\ MainRuns
    /\ pc = "poll"
    /\ stmt \in {"314", "322"}
    /\ deployment_wrappers' =
          [deployment_wrappers EXCEPT ![idx].ended_successfully = (stmt = "314")]
    /\ stmt' = "next"
    /\ IF stmt = "322" /\ exit_on_error = TRUE
       THEN /\ pc' = "kill"
            /\ kidx' = 1
            /\ kill_callers' = kill_callers \cup {"monitor"}
            /\ idx' = idx
       ELSE /\ idx' = idx + 1
            /\ UNCHANGED <<pc, kidx, kill_callers>>
    /\ UNCHANGED <<targets, exit_on_error, sig, hidx,
                   exit_code, exit_path, recap, recaps, premature_read, pulled,
                   unended_at_signal, pending, rd, stage_vars>>

\* the for loop of kill_deployments (called from line 325) moves on; after the
\* last record the monitor goes on with its next record
KillLoopAdvance ==
    IF kidx = Len(deployment_wrappers)
    THEN pc' = "poll" /\ idx' = idx + 1 /\ kidx' = 0
    ELSE kidx' = kidx + 1 /\ UNCHANGED <<pc, idx>>

\* lines 250-258: the poll() test, os.kill, terminate and wait
StmtKillTerminate ==
    /\ MainRuns
    /\ pc = "kill"
    /\ stmt = "next"
    /\ kidx \in 1..Len(deployment_wrappers)
    /\ IF deployment_wrappers[kidx].process = None
       THEN /\ \E rc \in KillStatuses :
                  deployment_wrappers' = [deployment_wrappers EXCEPT ![kidx].process = rc]
            /\ stmt' = "259"
            /\ UNCHANGED <<pc, idx, kidx>>
       ELSE /\ KillLoopAdvance
            /\ UNCHANGED <<deployment_wrappers, stmt>>
    /\ UNCHANGED <<targets, exit_on_error, sig, hidx,
                   exit_code, exit_path, recap, recaps, premature_read, pulled,
                   kill_callers, unended_at_signal, pending, rd, stage_vars>>

\* line 259: deployment.has_ended = True
StmtKillEnded ==
    /\ MainRuns
    /\ pc = "kill"
    /\ stmt = "259"
    /\ deployment_wrappers' = [deployment_wrappers EXCEPT ![kidx].has_ended = TRUE,
                                                          ![kidx].ended_by = "kill"]
    /\ stmt' = "260"
    /\ UNCHANGED <<targets, exit_on_error, pc, idx, kidx, sig, hidx,
                   exit_code, exit_path, recap, recaps, premature_read, pulled,
                   kill_callers, unended_at_signal, pending, rd, stage_vars>>

\* line 260: deployment.ended_successfully = False
StmtKillResult ==
    /\ MainRuns
    /\ pc = "kill"
    /\ stmt = "260"
    /\ deployment_wrappers' = [deployment_wrappers EXCEPT ![kidx].ended_successfully = FALSE]
    /\ stmt' = "261"
    /\ UNCHANGED <<targets, exit_on_error, pc, idx, kidx, sig, hidx,
                   exit_code, exit_path, recap, recaps, premature_read, pulled,
                   kill_callers, unended_at_signal, pending, rd, stage_vars>>

\* lines 261-264: deployment.log_file.close()
StmtKillClose ==
    /\ MainRuns
    /\ pc = "kill"
    /\ stmt = "261"
    /\ deployment_wrappers' =
          [deployment_wrappers EXCEPT ![kidx] = CloseLog(deployment_wrappers[kidx])]
    /\ stmt' = "next"
    /\ KillLoopAdvance
    /\ UNCHANGED <<targets, exit_on_error, sig, hidx,
                   exit_code, exit_path, recap, recaps, premature_read, pulled,
                   kill_callers, unended_at_signal, pending, rd, stage_vars>>

NextStmt ==
    \/ Preflight
    \/ StmtSpawn
    \/ StmtAppend
    \/ DispatchAbort
    \/ StartMonitor
    \/ StmtPollTest
    \/ StmtPollEnded
    \/ StmtPollResult
    \/ StmtKillTerminate
    \/ StmtKillEnded
    \/ StmtKillResult
    \/ StmtKillClose
    \/ Sleep
    \/ PrintRecap
    \/ Decide
    \/ PullLogs
    \/ ExitFailure
    \/ Signal
    \/ HandlerKill
    \/ HandlerRecap
    \/ HandlerExit
    \/ ProcessExits
    \/ ProcessWrites
    \/ PendingExits

SpecStmt == Init /\ [][NextStmt]_vars

\* ------------------------------------------ run_deployment, playbook choice
InitPlaybook ==
    /\ targets = <<>>
    /\ exit_on_error = FALSE
    /\ deployment_wrappers = <<>>
    /\ pc = "dispatch"
    /\ idx = 0
    /\ kidx = 0
    /\ sig = "none"
    /\ hidx = 0
    /\ exit_code = NoExit
    /\ exit_path = "running"
    /\ recap = NoRecap
    /\ recaps = 0
    /\ premature_read = FALSE
    /\ pulled = <<>>
    /\ kill_callers = {}
    /\ unended_at_signal = {}
    /\ pending = <<>>
    /\ stmt = "next"
    /\ rd \in RunDeploymentCalls
    /\ StagesIdle

main_vars == <<targets, exit_on_error, deployment_wrappers, pc, idx, kidx, sig, hidx,
               exit_code, exit_path, recap, recaps, premature_read, pulled,
               kill_callers, unended_at_signal, pending, stmt, stage_vars>>

\* lines 200-213
SelectPlaybook ==
    /\ rd.phase = "start"
    /\ rd' = [rd EXCEPT !.phase = "selected",
                        !.playbook = select_playbook(rd.deployment, rd.cleanup,
                                                     rd.redeploy, rd.is_single_node)]
    /\ UNCHANGED main_vars

\* lines 215-221
BuildCommand ==
    /\ rd.phase = "selected"
    /\ rd' = [rd EXCEPT !.phase = "built",
                        !.command = ansible_playbook_command(rd.playbook, "inventory.yml",
                                                             rd.limit)]
    /\ UNCHANGED main_vars

NextPlaybook ==
    \/ SelectPlaybook
    \/ BuildCommand

SpecPlaybook == InitPlaybook /\ [][NextPlaybook]_vars

\* ====================================================== properties
Records == 1..Len(deployment_wrappers)
AllSuccessful == \A i \in Records : deployment_wrappers[i].ended_successfully
AllEnded == \A i \in Records : deployment_wrappers[i].has_ended
MissingType == \E i \in 1..Len(targets) : targets[i].deployment \notin DEPLOYMENTS_PATH

\* C1 (as stated): on every exit path, the signal handler's included, the exit
\* code is 0 if and only if every record of deployment_wrappers ended successfully.
C1_ExitZeroIffAllSuccessful ==
    ~Running => (exit_code = 0 <=> AllSuccessful)

\* C1 (amended): the exit code is 0 only if every record ended successfully;
\* when main runs to its own sys.exit (lines 418-424) the exit code is 0 if and
\* only if every record ended successfully, and 1 otherwise; an exit through
\* exit_gracefully, the pre-flight check or a dispatch abort is always 1.
C1_ExitCode ==
    ~Running =>
        /\ exit_code = 0 => (AllSuccessful /\ exit_path = "main")
        /\ exit_path = "main" =>
              /\ Len(deployment_wrappers) = Len(targets)
              /\ exit_code = (IF AllSuccessful THEN 0 ELSE ERROR_EXIT_CODE)
        /\ exit_path # "main" => exit_code = ERROR_EXIT_CODE

C1_Witness ==
    /\ exit_path = "main"
    /\ exit_code = ERROR_EXIT_CODE
    /\ Len(deployment_wrappers) >= 2
    /\ deployment_wrappers[1].ended_successfully
    /\ ~deployment_wrappers[Len(deployment_wrappers)].ended_successfully

\* C2: when some target names a deployment type that is not under the
\* deployments directory, whatever its position, no record is created (no
\* process is launched) and main leaves the pre-flight check only by exiting
\* with code 1.
C2_PreflightBeforeSpawn ==
    MissingType =>
        /\ deployment_wrappers = <<>>
        /\ pc \in {"preflight", "exited"}
        /\ pc = "exited" => (exit_code = ERROR_EXIT_CODE /\ exit_path = "preflight")
        /\ ~Running => exit_code = ERROR_EXIT_CODE

C2_Witness ==
    /\ exit_path = "preflight"
    /\ Len(targets) >= 2
    /\ \A i \in 1..(Len(targets) - 1) : targets[i].deployment \in DEPLOYMENTS_PATH
    /\ targets[Len(targets)].deployment \notin DEPLOYMENTS_PATH
    /\ deployment_wrappers = <<>>

\* C3: the records are created in input order (the i-th record is the i-th
\* target's), once dispatch is complete there are exactly as many records as
\* targets, and a recap lists the clusters in the order of the records.
DispatchComplete ==
    \/ pc \in {"poll", "kill", "recap", "decide", "pull_logs"}
    \/ exit_path = "main"

C3_DispatchOrder ==
    /\ \A i \in Records :
          /\ i <= Len(targets)
          /\ deployment_wrappers[i].cluster_name = targets[i].cluster_name
    /\ DispatchComplete => Len(deployment_wrappers) = Len(targets)
    /\ recaps > 0 =>
          /\ Len(recap.lines) = Len(deployment_wrappers)
          /\ recap.deployment_count = Len(deployment_wrappers)
          /\ \A i \in Records :
                recap.lines[i].cluster_name = deployment_wrappers[i].cluster_name

C3_Witness ==
    /\ DispatchComplete
    /\ recaps > 0
    /\ Len(targets) >= 2
    /\ Len(recap.lines) = Len(targets)

\* C4: once a record's has_ended is true, no step of the monitor, of
\* kill_deployments or of the signal handler changes its has_ended or its
\* ended_successfully again, and its process is never replaced.
C4_EndedIsAbsorbing ==
    [][\A i \in Records :
          deployment_wrappers[i].has_ended =>
             /\ deployment_wrappers'[i].has_ended
             /\ deployment_wrappers'[i].ended_successfully
                   = deployment_wrappers[i].ended_successfully
             /\ deployment_wrappers'[i].process = deployment_wrappers[i].process]_vars

\* a record the monitor marked successful has since been passed by the
\* fail-fast kill_deployments, which ended another record
C4_Witness ==
    /\ "monitor" \in kill_callers
    /\ pc = "poll"
    /\ \E i, j \in Records :
          /\ deployment_wrappers[i].ended_by = "monitor"
          /\ deployment_wrappers[i].ended_successfully
          /\ deployment_wrappers[j].ended_by = "kill"

\* C5 (as stated): ended_successfully of a record is never read, by
\* print_deployment_recap or has_deployments_successful, on the normal or on
\* the signal path, while that record's has_ended is false.
C5_ReadOnlyAfterEnded == premature_read = FALSE

\* C6: kill_deployments leaves every already ended record exactly as it is
\* (has_ended, ended_successfully, log file, number of close calls), a second
\* kill_deployments right after a first changes nothing, and no log file is
\* ever closed twice.
C6_KillIdempotent ==
    /\ \A rc1, rc2 \in KillStatuses :
          LET once  == KillAll(deployment_wrappers, rc1)
              twice == KillAll(once, rc2)
          IN /\ twice = once
             /\ \A i \in Records :
                   deployment_wrappers[i].has_ended => once[i] = deployment_wrappers[i]
    /\ \A i \in Records : deployment_wrappers[i].closes <= 1

\* the handler's kill_deployments has run over records ended by the monitor
\* (one successful, one failed) and over one ended by an earlier kill
C6_Witness ==
    /\ sig = "recap"
    /\ "monitor" \in kill_callers
    /\ \E i, j \in Records :
          /\ deployment_wrappers[i].ended_by = "monitor"
          /\ ~deployment_wrappers[i].ended_successfully
          /\ deployment_wrappers[j].ended_by = "kill"
          /\ j \notin unended_at_signal

\* C7 (as stated): with fail-fast enabled, once the monitor has marked one
\* record failed, every record has has_ended true by the time the run exits.
MonitorSawFailure ==
    \E i \in Records : /\ deployment_wrappers[i].ended_by = "monitor"
                       /\ ~deployment_wrappers[i].ended_successfully

C7_FailFastEndsAll ==
    (exit_on_error /\ MonitorSawFailure /\ ~Running) => AllEnded

\* C8: with fail-fast disabled and no signal delivered, kill_deployments is
\* never invoked and no record is marked ended while its process runs.
C8_NoFailFastNoKill ==
    (~exit_on_error /\ sig = "none") =>
        /\ kill_callers = {}
        /\ pc # "kill"
        /\ \A i \in Records :
              /\ deployment_wrappers[i].ended_by # "kill"
              /\ deployment_wrappers[i].has_ended => deployment_wrappers[i].process # None

\* the monitor has marked one record failed and a later record still runs
C8_Witness ==
    /\ ~exit_on_error
    /\ sig = "none"
    /\ \E i, j \in Records :
          /\ i < j
          /\ deployment_wrappers[i].has_ended
          /\ ~deployment_wrappers[i].ended_successfully
          /\ deployment_wrappers[j].process = None
          /\ pc = "poll"
          /\ idx > j

\* C9 (as stated): every recap printed has successful_count + failure_count =
\* deployment_count = number of records, successful_count the number of records
\* in terminal state SUCCESS and failure_count the number of records in
\* terminal state FAILURE (has_ended true, ended_successfully false).
C9_RecapCounts ==
    recaps > 0 =>
        /\ recap.successful_count + recap.failure_count = recap.deployment_count
        /\ recap.deployment_count = Len(deployment_wrappers)
        /\ recap.successful_count =
              Cardinality({ i \in Records : /\ deployment_wrappers[i].has_ended
                                            /\ deployment_wrappers[i].ended_successfully })
        /\ recap.failure_count =
              Cardinality({ i \in Records : /\ deployment_wrappers[i].has_ended
                                            /\ ~deployment_wrappers[i].ended_successfully })

\* C10 (as stated): for a signal delivered between poll iterations, after
\* kill_deployments has run in exit_gracefully every record that had has_ended
\* false at signal time has has_ended true, ended_successfully false and a
\* closed log file.
C10_SignalEndsAll ==
    (sig \in {"recap", "exited"} /\ pc = "poll") =>
        \A i \in unended_at_signal :
            /\ deployment_wrappers[i].has_ended
            /\ ~deployment_wrappers[i].ended_successfully
            /\ deployment_wrappers[i].log_file = "closed"

\* C11: between actions of the monitor and of the signal handler, a record's
\* log file is open exactly when its has_ended is false, it is closed only
\* once its process has exited, and no write of the process reached the log
\* file after the close.
C11_LogOpenIffRunning ==
    \A i \in Records :
        /\ (deployment_wrappers[i].log_file = "open") <=> ~deployment_wrappers[i].has_ended
        /\ deployment_wrappers[i].log_file = "closed" => deployment_wrappers[i].process # None
        /\ ~deployment_wrappers[i].late_write

\* one record was closed by the monitor, one by a forced termination, and a
\* third is still running (and writing) with its log open
C11_Witness ==
    \E i, j, k \in Records :
        /\ deployment_wrappers[i].ended_by = "monitor"
        /\ deployment_wrappers[i].log_file = "closed"
        /\ deployment_wrappers[j].ended_by = "kill"
        /\ deployment_wrappers[j].log_file = "closed"
        /\ deployment_wrappers[k].process = None
        /\ deployment_wrappers[k].log_file = "open"

\* C13 (as stated): on every path by which the orchestrator exits after having
\* launched at least one deployment process, the recap has been printed and
\* lists every dispatched cluster.
C13_RecapAlwaysPrinted ==
    (~Running /\ Len(deployment_wrappers) >= 1) =>
        /\ recaps >= 1
        /\ Len(recap.lines) = Len(deployment_wrappers)

\* C15: with fail-fast disabled and no signal, a record is untouched while its
\* process has not exited, an ended record is successful exactly when its own
\* process exited with status 0, and when main exits the recap counts and the
\* exit code are those given by the exit statuses alone.
ExitedZero == { i \in Records : deployment_wrappers[i].process = 0 }

C15_OwnExitStatusDecides ==
    (~exit_on_error /\ sig = "none") =>
        /\ \A i \in Records :
              /\ deployment_wrappers[i].process = None =>
                    /\ ~deployment_wrappers[i].has_ended
                    /\ ~deployment_wrappers[i].ended_successfully
                    /\ deployment_wrappers[i].log_file = "open"
                    /\ deployment_wrappers[i].closes = 0
              /\ deployment_wrappers[i].has_ended =>
                    (deployment_wrappers[i].ended_successfully
                        <=> deployment_wrappers[i].process = 0)
        /\ exit_path = "main" =>
              /\ AllEnded
              /\ recap.successful_count = Cardinality(ExitedZero)
              /\ recap.failure_count = Len(deployment_wrappers) - Cardinality(ExitedZero)
              /\ exit_code = (IF Cardinality(ExitedZero) = Len(deployment_wrappers)
                              THEN 0 ELSE ERROR_EXIT_CODE)

\* three targets ended with exit statuses 0, 1, 0
C15_Witness ==
    /\ ~exit_on_error
    /\ sig = "none"
    /\ exit_path = "main"
    /\ Len(deployment_wrappers) = 3
    /\ deployment_wrappers[1].process = 0
    /\ deployment_wrappers[2].process = 1
    /\ deployment_wrappers[3].process = 0
    /\ recap.successful_count = 2
    /\ recap.failure_count = 1
    /\ exit_code = ERROR_EXIT_CODE

\* C18 (as stated): every record's log file is closed exactly once, and on
\* every exit path (all succeed, some fail, fail-fast, signal) every dispatched
\* record's log file has been closed by the time the orchestrator exits.
C18_LogsClosedAtExit ==
    /\ \A i \in Records : deployment_wrappers[i].closes <= 1
    /\ (~Running /\ exit_path \in {"main", "signal"}) =>
          \A i \in Records : /\ deployment_wrappers[i].log_file = "closed"
                             /\ deployment_wrappers[i].closes = 1

\* C14 (as stated): when os.kill raises ProcessLookupError in kill_deployments,
\* no exception escapes kill_deployments and the caller goes on to the recap
\* before the run exits.
C14_LookupErrorTolerated ==
    (\E i \in Records : deployment_wrappers[i].process = Lost) =>
        /\ exit_path # "exception"
        /\ ~Running => recaps >= 1

\* C16: the playbook is chosen by the decision table, in this priority order:
\* allow-listed type and cleanup -> cleanup playbook; else allow-listed and
\* redeploy -> redeploy playbook; else single node -> single-node playbook;
\* else the multi-node playbook.  Cleanup wins when both flags are set, and
\* both flags are ignored for a type outside the allow-list.
AllowListed == rd.deployment = "pwek-all-in-one"

C16_PlaybookTable ==
    rd.phase \in {"selected", "built"} =>
        /\ (AllowListed /\ rd.cleanup) => rd.playbook = "network_edge_5g_cleanup.yml"
        /\ (AllowListed /\ ~rd.cleanup /\ rd.redeploy)
              => rd.playbook = "network_edge_5g_redeploy.yml"
        /\ (~(AllowListed /\ (rd.cleanup \/ rd.redeploy)) /\ rd.is_single_node)
              => rd.playbook = "single_node_network_edge.yml"
        /\ (~(AllowListed /\ (rd.cleanup \/ rd.redeploy)) /\ ~rd.is_single_node)
              => rd.playbook = "network_edge.yml"
        /\ ~AllowListed
              => rd.playbook \in {"single_node_network_edge.yml", "network_edge.yml"}
        /\ rd.phase = "built" => rd.command[3] = rd.playbook

\* an allow-listed type with both flags set got the cleanup playbook
C16_Witness ==
    /\ rd.phase = "built"
    /\ AllowListed
    /\ rd.cleanup
    /\ rd.redeploy
    /\ rd.playbook = "network_edge_5g_cleanup.yml"

C17_FailFastScenario ==
    ( /\ exit_on_error
      /\ Len(deployment_wrappers) = 3
      /\ deployment_wrappers[2].ended_by = "monitor"
      /\ ~deployment_wrappers[2].ended_successfully
      /\ ~Running ) =>
        /\ AllEnded
        /\ recaps >= 1
        /\ recap.successful_count <= 1
        /\ exit_code = ERROR_EXIT_CODE

\* C19 (as stated): whenever the run exits through the signal handler, no
\* deployment process spawned by the run is still running, the one spawned by
\* run_deployment and not yet appended to deployment_wrappers included.
C19_NoProcessLeftRunning ==
    exit_path = "signal" =>
        /\ \A i \in Records : deployment_wrappers[i].process # None
        /\ pending # <<None>>

\* C20 (as stated): whatever statement of the monitor the signal interrupts,
\* in the state the recap reports no record has its log file closed while
\* has_ended is false, and no record whose process the monitor observed
\* exiting with status 0 is reported FAILED.
ObservedZero(i) ==
    /\ deployment_wrappers[i].process = 0
    /\ \/ /\ deployment_wrappers[i].ended_by = "monitor"
          /\ deployment_wrappers[i].ended_successfully
       \/ pc = "poll" /\ idx = i /\ stmt \in {"313", "314"}

C20_RecapConsistent ==
    sig \in {"recap", "exited"} =>
        \A i \in Records :
            /\ deployment_wrappers[i].log_file = "closed" => deployment_wrappers[i].has_ended
            /\ ObservedZero(i) => recap.lines[i].status = "SUCCESSFUL"

\* ------------------------------------------- the run nobody interrupts
\* The orchestrator when neither SIGINT nor SIGTERM is delivered: main runs on
\* (weak fairness of its steps) and every ansible-playbook process that is
\* left alone ends on its own at some time.
MainStep ==
    \/ Preflight
    \/ Dispatch
    \/ StartMonitor
    \/ PollRecord
    \/ MonitorKill
    \/ Sleep
    \/ PrintRecap
    \/ Decide
    \/ PullLogs
    \/ ExitFailure

\* the process of record i ends on its own
ProcessExitsAt(i) ==
    /\ ProcessExits
    /\ i \in 1..Len(deployment_wrappers)
    /\ deployment_wrappers[i].process = None
    /\ deployment_wrappers'[i].process # None

NextQuiet ==
    \/ MainStep
    \/ DispatchAbort
    \/ ProcessExits
    \/ ProcessWrites

FairQuiet ==
    /\ WF_vars(MainStep)
    /\ \A i \in 1..MaxTargets : WF_vars(ProcessExitsAt(i))

SpecQuiet == Init /\ [][NextQuiet]_vars /\ FairQuiet

ClusterNames(n) == [i \in 1..n |-> deployment_wrappers[i].cluster_name]

\* C22 (as stated): when the run completes without a signal and some record is
\* unsuccessful, pull_logs has been invoked exactly once for every record, in
\* order, after the recap and before exit code 1; when every record succeeded,
\* and when the run ends through the signal handler, pull_logs has never been
\* invoked.
C22_LogCollection ==
    /\ pulled # <<>> => recaps >= 1
    /\ (exit_path = "main" /\ ~AllSuccessful) =>
          /\ pulled = ClusterNames(Len(deployment_wrappers))
          /\ exit_code = ERROR_EXIT_CODE
    /\ (exit_path = "main" /\ AllSuccessful) => pulled = <<>>
    /\ exit_path = "signal" => pulled = <<>>

\* C22 (amended): pull_logs is invoked by main only, after the recap and only
\* when some record is unsuccessful, once per record in list order; a run that
\* main ends with exit code 1 has invoked it for every record, a run that ends
\* with every record successful never; exit_gracefully invokes it for no
\* record, so a run ended by a signal has invoked it only for the records main
\* had reached in its pull_logs loop when the signal arrived.
C22_LogCollectionByMain ==
    /\ Len(pulled) <= Len(deployment_wrappers)
    /\ pulled = ClusterNames(Len(pulled))
    /\ pulled # <<>> =>
          /\ recaps >= 1
          /\ ~AllSuccessful
          /\ pc \in {"pull_logs", "exited"}
    /\ (exit_path = "main" /\ ~AllSuccessful) =>
          /\ pulled = ClusterNames(Len(deployment_wrappers))
          /\ exit_code = ERROR_EXIT_CODE
    /\ (exit_path = "main" /\ AllSuccessful) => pulled = <<>>
    /\ (exit_path = "signal" /\ pc # "pull_logs") => pulled = <<>>

\* main exited with code 1 after collecting the logs of a successful and of a
\* failed cluster
C22_Witness ==
    /\ exit_path = "main"
    /\ exit_code = ERROR_EXIT_CODE
    /\ Len(pulled) >= 2
    /\ Len(pulled) = Len(deployment_wrappers)
    /\ \E i, j \in Records :
          /\ deployment_wrappers[i].ended_successfully
          /\ ~deployment_wrappers[j].ended_successfully

\* C23 (as stated): when run_deployment exits while preparing the variable
\* layout of target k, the orchestrator exits with code 1, no process has been
\* spawned for target k or a later target, and no process spawned for a target
\* before k is left running.
C23_DispatchAbortCleansUp ==
    exit_path = "dispatch_abort" =>
        /\ exit_code = ERROR_EXIT_CODE
        /\ Len(deployment_wrappers) < Len(targets)
        /\ pending = <<>>
        /\ \A i \in Records : deployment_wrappers[i].process # None

\* C24: deployment_wrappers grows only in the dispatch loop of main, one record
\* at a time and before the next process is spawned, and its membership never
\* changes otherwise; absent a signal, until the last target has been launched
\* main is still dispatching, kill_deployments has not been called and every
\* record is untouched (has_ended false, ended_successfully false, log open),
\* even when its process has already exited with failure.
C24_DispatchBeforeMonitor ==
    /\ []((Len(deployment_wrappers) < Len(targets) /\ sig = "none") =>
            /\ pc \in {"preflight", "dispatch", "exited"}
            /\ kill_callers = {}
            /\ \A i \in Records :
                  /\ ~deployment_wrappers[i].has_ended
                  /\ ~deployment_wrappers[i].ended_successfully
                  /\ deployment_wrappers[i].log_file = "open")
    /\ [](pending # <<>> => (pc = "dispatch" /\ Len(deployment_wrappers) < Len(targets)))
    /\ [][/\ Len(deployment_wrappers') >= Len(deployment_wrappers)
          /\ \A i \in Records :
                deployment_wrappers'[i].cluster_name = deployment_wrappers[i].cluster_name
          /\ Len(deployment_wrappers') # Len(deployment_wrappers) =>
                /\ pc = "dispatch"
                /\ sig = "none"
                /\ pending # <<>>
                /\ pending' = <<>>
                /\ Len(deployment_wrappers') = Len(deployment_wrappers) + 1]_vars

\* fail-fast is on, the first process has exited with failure and main is
\* still launching: the second process is spawned and a third target is left
C24_Witness ==
    /\ exit_on_error
    /\ sig = "none"
    /\ pc = "dispatch"
    /\ Len(deployment_wrappers) >= 1
    /\ Len(targets) >= Len(deployment_wrappers) + 2
    /\ pending # <<>>
    /\ deployment_wrappers[1].process = 1
    /\ ~deployment_wrappers[1].has_ended

\* --------------------------------------------------- deploy_esp: main
\* Runs of deploy_esp.py, the first one on a directory without status files,
\* each later one on the status files the runs before it left.
InitStages ==
    /\ targets = <<>>
    /\ exit_on_error = FALSE
    /\ deployment_wrappers = <<>>
    /\ pc = "exited"
    /\ idx = 0
    /\ kidx = 0
    /\ sig = "none"
    /\ hidx = 0
    /\ exit_code = NoExit
    /\ exit_path = "running"
    /\ recap = NoRecap
    /\ recaps = 0
    /\ premature_read = FALSE
    /\ pulled = <<>>
    /\ kill_callers = {}
    /\ unended_at_signal = {}
    /\ pending = <<>>
    /\ stmt = "next"
    /\ rd = NoCall
    /\ stages \in StageTables
    /\ status_files = {}
    /\ start_from \in {"None"} \cup DOMAIN stages
    /\ force \in BOOLEAN
    /\ stage_pc = "check"
    /\ files_before = {}
    /\ last_call = NoStageCall

deploy_vars == <<targets, exit_on_error, deployment_wrappers, pc, idx, kidx, sig, hidx,
                 exit_code, exit_path, recap, recaps, premature_read, pulled,
                 kill_callers, unended_at_signal, pending, stmt, rd>>

\* deploy_esp.py line 1187
CheckStages ==
    /\ stage_pc = "check"
    /\ files_before' = status_files
    /\ status_files' = check_stages(start_from, stages, status_files)
    /\ stage_pc' = "cleanup"
    /\ UNCHANGED <<stages, start_from, force, last_call>>
    /\ UNCHANGED deploy_vars

\* deploy_esp.py lines 1202-1203 and 1087-1090: with --cleanup every status
\* file of the table is removed
Cleanup ==
    /\ stage_pc = "cleanup"
    /\ status_files' = (IF force THEN status_files \ StatusFilesOf(stages) ELSE status_files)
    /\ stage_pc' = "stages"
    /\ files_before' = {}
    /\ UNCHANGED <<stages, start_from, force, last_call>>
    /\ UNCHANGED deploy_vars

\* deploy_esp.py lines 1211-1224: main calls a wrapped function; an exception
\* of the body ends the run
CallStage ==
    /\ stage_pc = "stages"
    /\ \E stage_name \in DOMAIN stages, outcome \in BodyOutcomes :
          /\ main_calls(stage_name, start_from)
          /\ LET after == wrapper(stage_name, stages, status_files, outcome)
             IN /\ status_files' = after.files
                /\ last_call' = after.call
                /\ stage_pc' = (IF after.call.result = "raised" THEN "failed" ELSE "stages")
    /\ UNCHANGED <<stages, start_from, force, files_before>>
    /\ UNCHANGED deploy_vars

\* the script is started again, on the status files the last run left
NewRun ==
    /\ stage_pc \in {"stages", "failed"}
    /\ start_from' \in {"None"} \cup DOMAIN stages
    /\ force' \in BOOLEAN
    /\ stage_pc' = "check"
    /\ last_call' = NoStageCall
    /\ UNCHANGED <<stages, status_files, files_before>>
    /\ UNCHANGED deploy_vars

NextStages ==
    \/ CheckStages
    \/ Cleanup
    \/ CallStage
    \/ NewRun

SpecStages == InitStages /\ [][NextStages]_vars

\* the stages as the claims speak of them: the first order index of a stage,
\* and whether the stage is on a branch (two-level order)
StageLevel(s) ==
    CASE s = "clone-esp"          -> 1
      [] s = "configure-esp"      -> 2
      [] s = "build-esp"          -> 3
      [] s = "build-usb-images"   -> 4
      [] s = "configure-profiles" -> 4
      [] s = "after-branches"     -> 5

OnBranch(s) == s \in {"build-usb-images", "configure-profiles"}

StatusFileExists(s) == stages[s].status_file \in status_files
StatusFileExisted(s) == stages[s].status_file \in files_before

\* C25: right after check_stages, with a start stage of single-level order k no
\* stage whose first order index is >= k (branches included) has a status file
\* and the status file of every earlier stage is as it was; with no start_from
\* every status file is as it was.
C25_SingleLevelStart ==
    stage_pc = "cleanup" =>
        /\ start_from = "None" => status_files = files_before
        /\ (start_from # "None" /\ ~OnBranch(start_from)) =>
              \A s \in DOMAIN stages :
                 /\ StageLevel(s) >= StageLevel(start_from) => ~StatusFileExists(s)
                 /\ StageLevel(s) < StageLevel(start_from) =>
                       (StatusFileExists(s) <=> StatusFileExisted(s))
        /\ status_files \subseteq files_before

\* every stage had run; --start-from=build-esp removed the status files of
\* build-esp, of both branches and of the stage after them
C25_Witness ==
    /\ stage_pc = "cleanup"
    /\ start_from = "build-esp"
    /\ stages = STAGES_JOINED
    /\ files_before = StatusFilesOf(STAGES_JOINED)
    /\ status_files = {".cloned_esp", ".configured_esp"}

\* C26: right after check_stages with a start stage on a branch, the status
\* files of that stage and of the single-level stages with a strictly larger
\* first index are gone and every other status file, the sibling branch's and
\* the earlier stages' included, is as it was; and the run that follows never
\* changes the sibling branch's status file.
C26_BranchStart ==
    /\ []((stage_pc = "cleanup" /\ start_from # "None" /\ OnBranch(start_from)) =>
            \A s \in DOMAIN stages :
               IF s = start_from \/ (~OnBranch(s) /\ StageLevel(s) > StageLevel(start_from))
               THEN ~StatusFileExists(s)
               ELSE StatusFileExists(s) <=> StatusFileExisted(s))
    /\ [][(stage_pc = "stages" /\ start_from # "None" /\ OnBranch(start_from)) =>
            \A s \in DOMAIN stages :
               (OnBranch(s) /\ s # start_from) =>
                  (stages[s].status_file \in status_files'
                      <=> stages[s].status_file \in status_files)]_vars

\* every stage had run; --start-from=build-usb-images removed the status files
\* of that branch and of the stage after the branches, and kept the sibling's
C26_Witness ==
    /\ stage_pc = "cleanup"
    /\ start_from = "build-usb-images"
    /\ stages = STAGES_JOINED
    /\ files_before = StatusFilesOf(STAGES_JOINED)
    /\ status_files = {".cloned_esp", ".configured_esp", ".built_esp", ".configured_profiles"}

\* a step is a call of a wrapped function
IsStageCall == last_call' # last_call /\ last_call' # NoStageCall

\* C30: a call of a wrapped function runs the body if and only if the stage's
\* status file is absent at call time; a call that skips the body returns None
\* and leaves the files alone; a body that returns normally leaves the status
\* file created, a body that raises leaves none; and a status file comes into
\* existence only by a call whose body returned normally.
C30_StageDecorator ==
    /\ [][IsStageCall =>
            LET status_file == stages[last_call'.stage].status_file
            IN /\ last_call'.ran <=> status_file \notin status_files
               /\ ~last_call'.ran =>
                     /\ last_call'.result = "None"
                     /\ status_files' = status_files
               /\ last_call'.ran =>
                     /\ last_call'.result \in BodyOutcomes
                     /\ last_call'.result = "returned" =>
                           status_files' = status_files \cup {status_file}
                     /\ last_call'.result = "raised" =>
                           /\ status_files' = status_files
                           /\ status_file \notin status_files']_vars
    /\ [][\A f \in status_files' \ status_files :
            /\ IsStageCall
            /\ last_call'.result = "returned"
            /\ stages[last_call'.stage].status_file = f]_vars
    /\ [](last_call.result = "returned" => stages[last_call.stage].status_file \in status_files)
    /\ [](last_call.result = "raised" => stages[last_call.stage].status_file \notin status_files)

\* clone-esp completed in an earlier run: restarted from configure-esp, the
\* call of clone_esp skipped its body, and configure-esp is due to run again
C30_Witness ==
    /\ stage_pc = "stages"
    /\ start_from = "configure-esp"
    /\ last_call = [stage |-> "clone-esp", ran |-> FALSE, result |-> "None"]
    /\ ".cloned_esp" \in status_files
    /\ ".configured_esp" \notin status_files

\* C27: between actions, a record with has_ended true has a process that has
\* exited, a record with ended_successfully true has has_ended true and a
\* process that exited with status 0, and no record ended by kill_deployments
\* is marked successful.
C27_EndedImpliesExited ==
    \A i \in Records :
        /\ deployment_wrappers[i].has_ended => deployment_wrappers[i].process # None
        /\ deployment_wrappers[i].ended_successfully =>
              /\ deployment_wrappers[i].has_ended
              /\ deployment_wrappers[i].process = 0
              /\ deployment_wrappers[i].ended_by = "monitor"
        /\ deployment_wrappers[i].ended_by = "kill" =>
              ~deployment_wrappers[i].ended_successfully

\* a process that ended with status 0 while kill_deployments was terminating
\* it is recorded failed, next to a record the monitor marked successful
C27_Witness ==
    \E i, j \in Records :
        /\ deployment_wrappers[i].ended_by = "kill"
        /\ deployment_wrappers[i].process = 0
        /\ deployment_wrappers[i].has_ended
        /\ ~deployment_wrappers[i].ended_successfully
        /\ deployment_wrappers[j].ended_by = "monitor"
        /\ deployment_wrappers[j].ended_successfully

\* main takes the step of its poll loop that visits record idx
IsPollStep == pc = "poll" /\ sig = "none" /\ idx \in Records /\ (idx' # idx \/ pc' # pc)

\* C28: a record whose process has exited is changed by nothing but the
\* monitor's own poll step on it: kill_deployments, called by the monitor or
\* by the handler, leaves it entirely as it is, marked ended or not; so the
\* poll step that visits a record whose process exited with status 0 records
\* it successful even after a fail-fast kill_deployments, and a run main ends
\* has every record successful whose process exited with status 0 on its own.
C28_KillSparesExited ==
    /\ [][\A i \in Records :
            (deployment_wrappers[i].process # None
                /\ deployment_wrappers'[i] # deployment_wrappers[i]) =>
                   /\ IsPollStep
                   /\ idx = i
                   /\ ~deployment_wrappers[i].has_ended
                   /\ deployment_wrappers'[i].ended_by = "monitor"]_vars
    /\ [][(IsPollStep /\ deployment_wrappers[idx].process = 0
                      /\ ~deployment_wrappers[idx].has_ended) =>
             /\ deployment_wrappers'[idx].has_ended
             /\ deployment_wrappers'[idx].ended_successfully
             /\ deployment_wrappers'[idx].log_file = "closed"]_vars
    /\ [](exit_path = "main" =>
             \A i \in Records :
                (deployment_wrappers[i].process = 0 /\ deployment_wrappers[i].ended_by # "kill")
                   => deployment_wrappers[i].ended_successfully)

\* fail-fast: the monitor marked one record failed and its kill_deployments
\* has passed over a record whose process exited with status 0, unmarked still
C28_Witness ==
    /\ exit_on_error
    /\ sig = "none"
    /\ pc = "kill"
    /\ kidx = Len(deployment_wrappers)
    /\ \E i, j \in Records :
          /\ j < kidx
          /\ deployment_wrappers[j].process = 0
          /\ ~deployment_wrappers[j].has_ended
          /\ deployment_wrappers[j].log_file = "open"
          /\ deployment_wrappers[i].ended_by = "monitor"
          /\ ~deployment_wrappers[i].ended_successfully

====
